---- MODULE Spec2Model ----
(***************************************************************************)
(* Model of src/cluster_manager.py (class KubernetesManager).              *)
(*                                                                         *)
(* SpecRec  : create_deployment_from_yaml with _create_or_replace_*        *)
(* SpecWait : wait_for_pods_ready (FairWait: the same, with fairness)      *)
(* SpecRead : get_application_url, get_detailed_service_info, list_*       *)
(* SpecMain : main, one step per manager method it calls                   *)
(* SpecExt  : the first two with another actor on the cluster (FairExt)    *)
(* SpecClean: delete_all_resources                                         *)
(*                                                                         *)
(* Every cluster API call is one step, so that the order of calls, the     *)
(* sleeps between them and the handler that absorbs each failure are all   *)
(* visible in the state.                                                   *)
(***************************************************************************)
EXTENDS Integers, Sequences, FiniteSets, TLC

VARIABLES
    pc,          \* position inside create_deployment_from_yaml
    documents,   \* list(yaml.safe_load_all(file))
    pos,         \* index of the document the loop is at (1-based)
    cluster,     \* live cluster: resource key -> uid of the instance (0 = absent)
    nextUid,     \* uid the cluster gives to the next created instance
    log,         \* what happened, in order: calls, sleeps, printed outcomes
    raised,      \* an exception left create_deployment_from_yaml
    wpc,         \* position inside wait_for_pods_ready
    timeout,     \* its timeout argument
    now,         \* time.time()
    start_time,  \* start_time local
    gets,        \* result of every read_namespaced_deployment so far
    lists,       \* result of every list_namespaced_pod so far
    wret,        \* value returned by wait_for_pods_ready
    wpath,       \* the return statement it left through
    ext,         \* changes another actor has made to the cluster so far
    fn,          \* the reporting method that is running
    rpc,         \* position inside it
    service,     \* what read_namespaced_service returned
    nodes,       \* what list_node returned (nodes.items)
    rcalls,      \* the cluster calls the method has made, in order
    rout,        \* how the method ended: a value, None, or an exception
    url,         \* the URL get_application_url returned
    mpc,         \* position inside main
    minit,       \* outcome of KubernetesManager()
    mcalls,      \* the manager methods main has called, with their calls
    cpc,         \* position inside delete_all_resources
    citems,      \* the items of the listing its loop still has to look at
    ccalls,      \* the cluster calls it has made, in order
    created      \* the resources create_deployment_from_yaml created earlier

recVars  == <<pc, documents, pos, cluster, nextUid, log, raised>>
waitVars == <<wpc, timeout, now, start_time, gets, lists, wret, wpath>>
readVars == <<fn, rpc, service, nodes, rcalls, rout, url>>
mainVars == <<mpc, minit, mcalls>>
cleanVars == <<cpc, citems, ccalls, created>>
vars     == <<pc, documents, pos, cluster, nextUid, log, raised,
              wpc, timeout, now, start_time, gets, lists, wret, wpath,
              ext, fn, rpc, service, nodes, rcalls, rout, url,
              mpc, minit, mcalls,
              cpc, citems, ccalls, created>>

----------------------------------------------------------------------------
(* Bounds *)
MaxDocs == 3

(* Program constants *)
NAMESPACE == "default"
DeploymentSettle == 5
ServiceSettle == 2

----------------------------------------------------------------------------
(* Documents of the manifest *)
NoKind == "<no kind>"
NoName == "<no name>"
NoNs   == "<no namespace>"

Doc(e, k, n, s) == [empty |-> e, kind |-> k, name |-> n, ns |-> s]

EmptyDoc == Doc(TRUE, NoKind, NoName, NoNs)

DocSet ==
    { EmptyDoc,
      Doc(FALSE, NoKind, "web", NoNs),
      Doc(FALSE, "ConfigMap", "web", NoNs),
      Doc(FALSE, "Deployment", "web", NoNs),
      Doc(FALSE, "Deployment", NoName, NoNs),
      Doc(FALSE, "Service", "web", NoNs),
      Doc(FALSE, "Service", "web", "other") }

Manifests == UNION { [1..n -> DocSet] : n \in 0..MaxDocs }

Kinds == {"Deployment", "Service"}
Keys  == [kind : Kinds, ns : {NAMESPACE, "other"}, name : {"web"}]

\* namespace = data.get('metadata', {}).get('namespace', NAMESPACE)
Namespace(doc) == IF doc.ns = NoNs THEN NAMESPACE ELSE doc.ns

KeyOf(doc) == [kind |-> doc.kind, ns |-> Namespace(doc), name |-> doc.name]

----------------------------------------------------------------------------
(* Outcomes of a cluster call.  "ok" is a normal return; "404", "409" and   *)
(* "500" are ApiException with that status; "exc" is an exception that is   *)
(* not an ApiException (e.g. a connection error raised by the transport).   *)
ApiStatuses == {"404", "409", "500"}
Faults == {"none", "500", "exc"}

IsApiException(res) == res \in ApiStatuses

\* The cluster: delete of an absent resource is NotFound
ApiDelete(c, key, fault) ==
    IF fault # "none" THEN fault
    ELSE IF c[key] = 0 THEN "404" ELSE "ok"

\* The cluster: create of an existing resource is Conflict
ApiCreate(c, key, fault) ==
    IF fault # "none" THEN fault
    ELSE IF c[key] # 0 THEN "409" ELSE "ok"

----------------------------------------------------------------------------
(* Exception handlers *)

DeleteHandlerCatches_Not404(res) == res \in {"409", "500"}

\* except ApiException as e:   (around the delete call)
DeleteHandlerCatches(res) == IsApiException(res)

DeleteWarns_Never(res) == FALSE

\* if e.status != 404: print Warning
DeleteWarns(res) == res # "404"

HelperCatches_ApiOnly(res) == IsApiException(res)

HelperCatches_NotConflict(res) == res \in {"404", "500", "exc", "KeyError"}

\* except ApiException / except Exception   (end of _create_or_replace_*)
HelperCatches(res) == IsApiException(res) \/ res \in {"exc", "KeyError"}

\* except FileNotFoundError / yaml.YAMLError / Exception
\* (end of create_deployment_from_yaml)
OuterCatches(exc) ==
    \/ exc = "FileNotFoundError"
    \/ exc = "YAMLError"
    \/ IsApiException(exc) \/ exc \in {"exc", "KeyError"}

SettleInterval_Same(kind) == ServiceSettle

\* time.sleep(5) for a Deployment, time.sleep(2) for a Service
SettleInterval(kind) ==
    IF kind = "Deployment" THEN DeploymentSettle ELSE ServiceSettle

Dispatch_UnsupportedRaises(doc) ==
    IF doc.empty THEN "skip"
    ELSE IF doc.kind = "Deployment" THEN "deployment"
    ELSE IF doc.kind = "Service" THEN "service"
    ELSE "KeyError"

\* The branch the loop body takes for one document
Dispatch(doc) ==
    IF doc.empty THEN "skip"
    ELSE IF doc.kind = NoKind THEN "KeyError"
    ELSE IF doc.kind = "Deployment" THEN "deployment"
    ELSE IF doc.kind = "Service" THEN "service"
    ELSE "unsupported"

----------------------------------------------------------------------------
Ev(d, e, r, u, t) == [doc |-> d, ev |-> e, res |-> r, uid |-> u, dur |-> t]

CurDoc == documents[pos]

InLoop == pc = "loop" /\ pos <= Len(documents)

\* create_deployment_from_yaml is called on a cluster that holds the
\* resources of the default namespace (uid 1) and none of the others
InitRecVars ==
    /\ pc = "load"
    /\ documents = << >>
    /\ pos = 0
    /\ cluster = [k \in Keys |-> IF k.ns = NAMESPACE THEN 1 ELSE 0]
    /\ nextUid = 2
    /\ log = << >>
    /\ raised = FALSE

IdleWaitVars ==
    /\ wpc = "idle"
    /\ timeout = 0
    /\ now = 0
    /\ start_time = 0
    /\ gets = << >>
    /\ lists = << >>
    /\ wret = "none"
    /\ wpath = "none"

\* no reporting method is running
IdleReadVars ==
    /\ fn = "none"
    /\ rpc = "idle"
    /\ service = [type |-> "none", ports |-> << >>]
    /\ nodes = << >>
    /\ rcalls = << >>
    /\ rout = "none"
    /\ url = << >>

\* main is not running
IdleMainVars ==
    /\ mpc = "idle"
    /\ minit = "none"
    /\ mcalls = {}

\* delete_all_resources is not running
IdleCleanVars ==
    /\ cpc = "idle"
    /\ citems = << >>
    /\ ccalls = << >>
    /\ created = {}

InitRec ==
    /\ InitRecVars
    /\ IdleWaitVars
    /\ ext = 0
    /\ IdleReadVars
    /\ IdleMainVars
    /\ IdleCleanVars

\* An exception reaches the handlers of create_deployment_from_yaml;
\* lg is the log up to the point where it was raised
Abort(lg, exc) ==
    /\ pc' = "done"
    /\ IF OuterCatches(exc)
       THEN /\ log' = Append(lg, Ev(pos, "abort", exc, 0, 0))
            /\ raised' = FALSE
       ELSE /\ log' = lg
            /\ raised' = TRUE

HelperFails_RetryOnce(lg, exc) ==
    IF /\ pc = "create"
       /\ Cardinality({i \in DOMAIN lg :
                          lg[i].doc = pos /\ lg[i].ev = "create"}) = 1
    THEN /\ log' = lg
         /\ pos' = pos
         /\ pc' = "create"
         /\ raised' = raised
    ELSE /\ log' = Append(lg, Ev(pos, "error", exc, 0, 0))
         /\ pos' = pos + 1
         /\ pc' = "loop"
         /\ raised' = raised

\* An exception is raised inside the try of _create_or_replace_*
HelperFails(lg, exc) ==
    IF HelperCatches(exc)
    THEN /\ log' = Append(lg, Ev(pos, "error", exc, 0, 0))
         /\ pos' = pos + 1
         /\ pc' = "loop"
         /\ raised' = raised
    ELSE /\ Abort(lg, exc)
         /\ pos' = pos

\* open(yaml_file) and list(yaml.safe_load_all(file))
LoadOk ==
    /\ pc = "load"
    /\ \E m \in Manifests : documents' = m
    /\ pos' = 1
    /\ pc' = "loop"
    /\ UNCHANGED <<cluster, nextUid, log, raised>>
    /\ UNCHANGED <<waitVars, ext, readVars, mainVars, cleanVars>>

LoadFails ==
    /\ pc = "load"
    /\ \E exc \in {"FileNotFoundError", "YAMLError"} : Abort(log, exc)
    /\ UNCHANGED <<documents, pos, cluster, nextUid>>
    /\ UNCHANGED <<waitVars, ext, readVars, mainVars, cleanVars>>

\* the for loop is exhausted
LoopEnd ==
    /\ pc = "loop"
    /\ pos > Len(documents)
    /\ pc' = "done"
    /\ UNCHANGED <<documents, pos, cluster, nextUid, log, raised>>
    /\ UNCHANGED <<waitVars, ext, readVars, mainVars, cleanVars>>

\* if doc is None: continue
SkipEmpty ==
    /\ InLoop
    /\ Dispatch(CurDoc) = "skip"
    /\ log' = Append(log, Ev(pos, "skip", "empty", 0, 0))
    /\ pos' = pos + 1
    /\ UNCHANGED <<pc, documents, cluster, nextUid, raised>>
    /\ UNCHANGED <<waitVars, ext, readVars, mainVars, cleanVars>>

\* doc["kind"] on a document without that key raises KeyError
MissingKind ==
    /\ InLoop
    /\ Dispatch(CurDoc) = "KeyError"
    /\ Abort(log, "KeyError")
    /\ UNCHANGED <<documents, pos, cluster, nextUid>>
    /\ UNCHANGED <<waitVars, ext, readVars, mainVars, cleanVars>>

\* else: print Unsupported resource type
Unsupported ==
    /\ InLoop
    /\ Dispatch(CurDoc) = "unsupported"
    /\ log' = Append(log, Ev(pos, "unsupported", CurDoc.kind, 0, 0))
    /\ pos' = pos + 1
    /\ UNCHANGED <<pc, documents, cluster, nextUid, raised>>
    /\ UNCHANGED <<waitVars, ext, readVars, mainVars, cleanVars>>

\* _create_or_replace_*: data['metadata']['name'] raises KeyError
MissingName ==
    /\ InLoop
    /\ Dispatch(CurDoc) \in {"deployment", "service"}
    /\ CurDoc.name = NoName
    /\ HelperFails(log, "KeyError")
    /\ UNCHANGED <<documents, cluster, nextUid>>
    /\ UNCHANGED <<waitVars, ext, readVars, mainVars, cleanVars>>

BeginReplace_NoDelete ==
    /\ InLoop
    /\ Dispatch(CurDoc) \in {"deployment", "service"}
    /\ CurDoc.name # NoName
    /\ pc' = "create"
    /\ UNCHANGED <<documents, pos, cluster, nextUid, log, raised>>
    /\ UNCHANGED <<waitVars, ext, readVars, mainVars, cleanVars>>

\* _create_or_replace_*: namespace and name are read, the delete is next
BeginReplace ==
    /\ InLoop
    /\ Dispatch(CurDoc) \in {"deployment", "service"}
    /\ CurDoc.name # NoName
    /\ pc' = "delete"
    /\ UNCHANGED <<documents, pos, cluster, nextUid, log, raised>>
    /\ UNCHANGED <<waitVars, ext, readVars, mainVars, cleanVars>>

\* delete_namespaced_deployment / delete_namespaced_service and its handler
DeleteCall ==
    /\ pc = "delete"
    /\ \E fault \in Faults :
        LET key == KeyOf(CurDoc)
            res == ApiDelete(cluster, key, fault)
            lg  == Append(log, Ev(pos, "delete", res, cluster[key], 0))
        IN  IF res = "ok"
            THEN /\ cluster' = [cluster EXCEPT ![key] = 0]
                 /\ log' = lg
                 /\ pc' = "settle"
                 /\ UNCHANGED <<pos, raised>>
            ELSE /\ cluster' = cluster
                 /\ IF DeleteHandlerCatches(res)
                    THEN /\ log' = IF DeleteWarns(res)
                                   THEN Append(lg, Ev(pos, "warn", res, 0, 0))
                                   ELSE lg
                         /\ pc' = "create"
                         /\ UNCHANGED <<pos, raised>>
                    ELSE HelperFails(lg, res)
    /\ UNCHANGED <<documents, nextUid>>
    /\ UNCHANGED <<waitVars, ext, readVars, mainVars, cleanVars>>

\* time.sleep after a delete that returned normally
Settle ==
    /\ pc = "settle"
    /\ log' = Append(log, Ev(pos, "sleep", "ok", 0, SettleInterval(CurDoc.kind)))
    /\ pc' = "create"
    /\ UNCHANGED <<documents, pos, cluster, nextUid, raised>>
    /\ UNCHANGED <<waitVars, ext, readVars, mainVars, cleanVars>>

\* create_namespaced_deployment / create_namespaced_service and what follows
CreateCall ==
    /\ pc = "create"
    /\ \E fault \in Faults :
        LET key == KeyOf(CurDoc)
            res == ApiCreate(cluster, key, fault)
        IN  IF res = "ok"
            THEN /\ cluster' = [cluster EXCEPT ![key] = nextUid]
                 /\ nextUid' = nextUid + 1
                 /\ log' = Append(log, Ev(pos, "create", res, nextUid, 0))
                 /\ pos' = pos + 1
                 /\ pc' = "loop"
                 /\ UNCHANGED raised
            ELSE /\ UNCHANGED <<cluster, nextUid>>
                 /\ HelperFails(Append(log, Ev(pos, "create", res, 0, 0)), res)
    /\ UNCHANGED documents
    /\ UNCHANGED <<waitVars, ext, readVars, mainVars, cleanVars>>

NextRec ==
    \/ LoadOk
    \/ LoadFails
    \/ LoopEnd
    \/ SkipEmpty
    \/ MissingKind
    \/ Unsupported
    \/ MissingName
    \/ BeginReplace
    \/ DeleteCall
    \/ Settle
    \/ CreateCall

SpecRec == InitRec /\ [][NextRec]_vars

----------------------------------------------------------------------------
(* wait_for_pods_ready *)

(* Bounds *)
MaxTimeout == 11
MaxLatency == 1
MaxReplicas == 1

(* Program constants *)
PollInterval == 5

\* deployment.status.available_replicas is None
None == -1

\* what read_namespaced_deployment returns or raises
Observations ==
    [res : {"ok"}, avail : {None} \cup 0..MaxReplicas, desired : 0..MaxReplicas]

GetErrors == [res : {"404", "500", "exc"}, avail : {None}, desired : {0}]

\* available_replicas = deployment.status.available_replicas or 0
Available(g) == IF g.avail = None THEN 0 ELSE g.avail

\* if available_replicas == desired_replicas
IsReady(g) == g.res = "ok" /\ Available(g) = g.desired

BeforeDeadline_Inclusive(t, start, limit) == t - start <= limit

\* while time.time() - start_time < timeout
BeforeDeadline(t, start, limit) == t - start < limit

\* except ApiException as e:   (inside the while loop)
PollHandlerCatches(res) == IsApiException(res)

PollAbsorbs_Never(res) == FALSE

PollAbsorbs_Every(res) == TRUE

\* if e.status == 404: sleep and poll again   else: raise e
PollAbsorbs(res) == res = "404"

\* except Exception as e: return False   (end of wait_for_pods_ready)
WaitCatches(res) == IsApiException(res) \/ res = "exc"

\* print Timeout ...; return False   (after the while loop)
TimeoutReturn == "False"

\* print Error ...; return False   (in the handler of the function)
ErrorReturn == "False"

IdleRecVars ==
    /\ pc = "idle"
    /\ documents = << >>
    /\ pos = 0
    /\ cluster = [k \in Keys |-> 0]
    /\ nextUid = 1
    /\ log = << >>
    /\ raised = FALSE

InitWait ==
    /\ IdleCleanVars
    /\ IdleRecVars
    /\ ext = 0
    /\ IdleReadVars
    /\ IdleMainVars
    /\ wpc = "start"
    /\ timeout \in 0..MaxTimeout
    /\ now = 0
    /\ start_time = 0
    /\ gets = << >>
    /\ lists = << >>
    /\ wret = "none"
    /\ wpath = "none"

\* start_time = time.time()
WaitStart ==
    /\ wpc = "start"
    /\ start_time' = now
    /\ wpc' = "check"
    /\ UNCHANGED <<timeout, now, gets, lists, wret, wpath>>
    /\ UNCHANGED <<recVars, ext, readVars, mainVars, cleanVars>>

\* the while condition holds: the loop body runs
DeadlineNotReached ==
    /\ wpc = "check"
    /\ BeforeDeadline(now, start_time, timeout)
    /\ wpc' = "get"
    /\ UNCHANGED <<timeout, now, start_time, gets, lists, wret, wpath>>
    /\ UNCHANGED <<recVars, ext, readVars, mainVars, cleanVars>>

\* the while condition fails: print Timeout, return False
DeadlineReached ==
    /\ wpc = "check"
    /\ ~BeforeDeadline(now, start_time, timeout)
    /\ wpc' = "done"
    /\ wret' = TimeoutReturn
    /\ wpath' = "timeout"
    /\ UNCHANGED <<timeout, now, start_time, gets, lists>>
    /\ UNCHANGED <<recVars, ext, readVars, mainVars, cleanVars>>

\* an exception raised in the loop body: the handler of the loop, then the
\* handler of the function
PollFails(res) ==
    IF PollHandlerCatches(res) /\ PollAbsorbs(res)
    THEN /\ wpc' = "sleep"
         /\ UNCHANGED <<wret, wpath>>
    ELSE /\ wpc' = "done"
         /\ IF WaitCatches(res)
            THEN wret' = ErrorReturn /\ wpath' = "error"
            ELSE wret' = "raised" /\ wpath' = "raised"

\* read_namespaced_deployment, the comparison and the handlers
GetCall ==
    /\ wpc = "get"
    /\ \E g \in Observations \cup GetErrors, lat \in 0..MaxLatency :
        /\ now' = now + lat
        /\ gets' = Append(gets, g)
        /\ IF g.res = "ok"
           THEN /\ wpc' = IF IsReady(g) THEN "list" ELSE "sleep"
                /\ UNCHANGED <<wret, wpath>>
           ELSE PollFails(g.res)
    /\ UNCHANGED <<timeout, start_time, lists>>
    /\ UNCHANGED <<recVars, ext, readVars, mainVars, cleanVars>>

\* list_namespaced_pod, the report and return True, or the handlers
ListCall ==
    /\ wpc = "list"
    /\ \E res \in {"ok", "404", "500", "exc"} :
        /\ lists' = Append(lists, res)
        /\ IF res = "ok"
           THEN /\ wpc' = "done"
                /\ wret' = "True"
                /\ wpath' = "ready"
           ELSE PollFails(res)
    /\ UNCHANGED <<timeout, now, start_time, gets>>
    /\ UNCHANGED <<recVars, ext, readVars, mainVars, cleanVars>>

\* time.sleep(5)
PollSleep ==
    /\ wpc = "sleep"
    /\ now' = now + PollInterval
    /\ wpc' = "check"
    /\ UNCHANGED <<timeout, start_time, gets, lists, wret, wpath>>
    /\ UNCHANGED <<recVars, ext, readVars, mainVars, cleanVars>>

NextWait ==
    \/ WaitStart
    \/ DeadlineNotReached
    \/ DeadlineReached
    \/ GetCall
    \/ ListCall
    \/ PollSleep

SpecWait == InitWait /\ [][NextWait]_vars

\* the waiter is a sequential program: a step that can be taken is taken
FairWait == SpecWait /\ WF_vars(NextWait)

----------------------------------------------------------------------------
(* Reading the log *)

IsCall(e) == e.ev \in {"delete", "create"}

\* indices of the log entries of kind ev written for document d
At(d, ev) == { i \in DOMAIN log : log[i].doc = d /\ log[i].ev = ev }

\* document d is a Deployment or a Service that names its resource
Reconcilable(d) ==
    /\ ~documents[d].empty
    /\ documents[d].kind \in Kinds
    /\ documents[d].name # NoName

\* the loop body ran for document d
Attempted(d) ==
    /\ \E i \in DOMAIN log : log[i].doc = d
    /\ Reconcilable(d) => At(d, "delete") # {}

\* document d is not empty and has no kind
Kindless(d) == ~documents[d].empty /\ documents[d].kind = NoKind

\* the loop reaches document d: no document before it lacks a kind
Reached(d) == \A k \in 1..(d - 1) : ~Kindless(k)

\* a delete or create call made for document d did not return normally
FailedCall(d) ==
    \E i \in DOMAIN log : log[i].doc = d /\ IsCall(log[i]) /\ log[i].res # "ok"

\* this step made a delete or create call that did not return normally
FailingCallStep ==
    /\ Len(log') > Len(log)
    /\ IsCall(log'[Len(log) + 1])
    /\ log'[Len(log) + 1].res # "ok"

----------------------------------------------------------------------------
C2_MalformedIsolated ==
    pc = "done" /\ (\E k \in DOMAIN documents : Kindless(k)) =>
        \A d \in DOMAIN documents : Reconcilable(d) => At(d, "delete") # {}

(* C3: a document of unsupported kind, and an empty document, cause no      *)
(* cluster call and no sleep, the loop goes on to the next document, and    *)
(* when the function has returned every document the loop reaches has been  *)
(* attempted (the loop reaches a document unless a document without a kind  *)
(* stands before it).                                                       *)
NoCallDoc(d) ==
    /\ d \in DOMAIN documents
    /\ documents[d].empty \/ documents[d].kind \notin Kinds \cup {NoKind}

C4_DeleteAbsorbsNotFound ==
    \A i \in DOMAIN log :
        log[i].ev = "delete" /\ log[i].res = "404" =>
            IF i = Len(log)
            THEN pc = "create" /\ pos = log[i].doc /\ ~raised
            ELSE log[i + 1].ev = "create" /\ log[i + 1].doc = log[i].doc

C4_Witness ==
    \E i \in DOMAIN log :
        /\ log[i].ev = "delete" /\ log[i].res = "404"
        /\ i < Len(log) /\ log[i + 1].ev = "create" /\ log[i + 1].res = "ok"

(* C5 as stated: whatever way the delete call fails other than 404, a       *)
(* warning is written and the create call of the document is attempted.     *)
C5_AnyDeleteFailureProceeds ==
    \A i \in DOMAIN log :
        log[i].ev = "delete" /\ log[i].res \notin {"ok", "404"} =>
            IF i = Len(log)
            THEN pc = "create"
            ELSE /\ log[i + 1].ev = "warn"
                 /\ IF i + 1 = Len(log) THEN pc = "create"
                    ELSE log[i + 2].ev = "create" /\ log[i + 2].doc = log[i].doc

(* C5 amended: when the delete call fails with an ApiException whose status *)
(* is not 404, a warning is written and the create call of the document is  *)
(* attempted; when it fails with an exception of another class, no create   *)
(* call is made for that document, the error is written and the loop goes   *)
(* on to the next document.                                                 *)
C5_ApiDeleteFailureProceeds ==
    \A i \in DOMAIN log :
        log[i].ev = "delete" /\ log[i].res \notin {"ok", "404"} =>
            /\ i < Len(log)
            /\ IF IsApiException(log[i].res)
               THEN /\ log[i + 1].ev = "warn" /\ log[i + 1].doc = log[i].doc
                    /\ IF i + 1 = Len(log) THEN pc = "create" /\ pos = log[i].doc
                       ELSE /\ log[i + 2].ev = "create"
                            /\ log[i + 2].doc = log[i].doc
               ELSE /\ log[i + 1].ev = "error" /\ log[i + 1].doc = log[i].doc
                    /\ At(log[i].doc, "create") = {}
                    /\ pos > log[i].doc
                    /\ ~raised

C5_Witness ==
    /\ \E i \in DOMAIN log :
        /\ log[i].ev = "delete" /\ log[i].res = "500"
        /\ i + 2 <= Len(log) /\ log[i + 1].ev = "warn" /\ log[i + 2].ev = "create"
    /\ \E i \in DOMAIN log :
        /\ log[i].ev = "delete" /\ log[i].res = "exc"
        /\ pos > log[i].doc

(* C6: a sleep stands between the delete and the create of a document       *)
(* exactly when the delete returned normally; it lasts 5 for a Deployment   *)
(* and 2 for a Service, and 5 > 2.                                          *)
C6_SettlingInterval ==
    /\ \A i \in DOMAIN log :
        log[i].ev = "delete" =>
            IF log[i].res = "ok"
            THEN IF i = Len(log) THEN pc = "settle"
                 ELSE /\ log[i + 1].ev = "sleep" /\ log[i + 1].doc = log[i].doc
                      /\ IF i + 1 = Len(log) THEN pc = "create"
                         ELSE log[i + 2].ev = "create"
            ELSE /\ pc # "settle" \/ i # Len(log)
                 /\ i < Len(log) => log[i + 1].ev # "sleep"
    /\ \A i \in DOMAIN log :
        log[i].ev = "sleep" =>
            /\ i > 1 /\ log[i - 1].ev = "delete" /\ log[i - 1].res = "ok"
            /\ log[i - 1].doc = log[i].doc
            /\ documents[log[i].doc].kind = "Deployment" => log[i].dur = 5
            /\ documents[log[i].doc].kind = "Service" => log[i].dur = 2
    /\ DeploymentSettle > ServiceSettle

C6_Witness ==
    /\ \E i \in DOMAIN log : log[i].ev = "sleep" /\ log[i].dur = 5
    /\ \E i \in DOMAIN log : log[i].ev = "sleep" /\ log[i].dur = 2
    /\ \E i \in DOMAIN log :
        /\ log[i].ev = "delete" /\ log[i].res = "404"
        /\ i < Len(log) /\ log[i + 1].ev = "create"

(* C7: when the same document is reconciled twice in succession and the     *)
(* delete and create calls of both runs are served by the cluster without   *)
(* a fault, each run ends with the resource present as the instance that    *)
(* run created, the second run's delete removes the instance the first run  *)
(* created, and neither create ends in Conflict.                            *)
\* the run for document d is over and its calls were served without a fault
CleanRun(d) ==
    /\ pos > d
    /\ Reconcilable(d)
    /\ \A i \in DOMAIN log :
        log[i].doc = d /\ IsCall(log[i]) => log[i].res \notin {"500", "exc"}

Created(d) == log[CHOOSE i \in At(d, "create") : TRUE]
Deleted(d) == log[CHOOSE i \in At(d, "delete") : TRUE]

C7_IdempotentReplace ==
    \A d \in DOMAIN documents :
        /\ d + 1 \in DOMAIN documents
        /\ documents[d] = documents[d + 1]
        /\ CleanRun(d)
        => /\ Cardinality(At(d, "delete")) = 1
           /\ Cardinality(At(d, "create")) = 1
           /\ Created(d).res = "ok"
           /\ Created(d).uid # 0
           /\ pos = d + 1 /\ pc \in {"loop", "delete"} =>
                cluster[KeyOf(documents[d])] = Created(d).uid
           /\ CleanRun(d + 1) =>
                /\ Cardinality(At(d + 1, "delete")) = 1
                /\ Cardinality(At(d + 1, "create")) = 1
                /\ Deleted(d + 1).res = "ok"
                /\ Deleted(d + 1).uid = Created(d).uid
                /\ Created(d + 1).res = "ok"
                /\ Created(d + 1).uid \notin {0, Created(d).uid}
                /\ pos = d + 2 /\ pc \in {"loop", "delete"} =>
                     cluster[KeyOf(documents[d])] = Created(d + 1).uid

C7_Witness ==
    /\ Len(documents) >= 2
    /\ documents[1] = documents[2]
    /\ pos = 3
    /\ CleanRun(1) /\ CleanRun(2)
    /\ Deleted(1).res = "404"
    /\ Deleted(2).res = "ok"

----------------------------------------------------------------------------
(* Reading the polls *)

LastGet == gets[Len(gets)]

Elapsed == now - start_time

\* the n-th get is the first one that observed available = desired
FirstReady(n) ==
    /\ n \in DOMAIN gets
    /\ IsReady(gets[n])
    /\ \A k \in 1..(n - 1) : ~IsReady(gets[k])

\* no get so far observed available = desired, and none failed other than
\* with NotFound
NeverReady ==
    \A i \in DOMAIN gets :
        \/ gets[i].res = "404"
        \/ gets[i].res = "ok" /\ Available(gets[i]) # gets[i].desired

AlwaysNotFound == gets # << >> /\ \A i \in DOMAIN gets : gets[i].res = "404"

\* this step made a get
GetStep == Len(gets') = Len(gets) + 1

(* C8 as stated: when available first equals desired at the N-th get, the   *)
(* waiter returns True after exactly N gets; and it returns True only when  *)
(* the last get observed available (None read as 0) equal to desired.       *)
C8_ReadyAfterExactlyN ==
    /\ wpc = "done" =>
        \A n \in DOMAIN gets : FirstReady(n) => wret = "True" /\ Len(gets) = n
    /\ wret = "True" =>
        /\ gets # << >>
        /\ LastGet.res = "ok"
        /\ (IF LastGet.avail = None THEN 0 ELSE LastGet.avail) = LastGet.desired

(* C9: the waiter always terminates; when no get ever observed available    *)
(* equal to desired it returns False through the timeout return, and the    *)
(* timeout return is taken only when now - start_time >= timeout; a get is  *)
(* made only right after a deadline check that passed, and none is made     *)
(* once a deadline check has failed.                                        *)
C9_ReadinessTimeout ==
    /\ <>(wpc = "done")
    /\ [](wpc = "done" /\ NeverReady =>
            wret = "False" /\ wpath = "timeout" /\ Elapsed >= timeout)
    /\ [](wpath = "timeout" => wret = "False" /\ Elapsed >= timeout)
    /\ [][wpc' = "get" => wpc = "check" /\ Elapsed < timeout]_vars
    /\ [][GetStep => wpc = "get"]_vars
    /\ [][wpc = "check" /\ Elapsed >= timeout =>
            wpc' = "done" /\ wpath' = "timeout" /\ gets' = gets]_vars
    /\ [][wpc = "done" => gets' = gets /\ wpc' = "done"]_vars

C9_Witness ==
    /\ wpc = "done"
    /\ wpath = "timeout"
    /\ timeout > PollInterval
    /\ Len(gets) >= 2
    /\ \A i \in DOMAIN gets : gets[i].res = "ok"
    /\ NeverReady

(* C10: a get that raises 404 is followed by a sleep of one poll interval   *)
(* and the next deadline check, never by an error return; when every get    *)
(* raised 404 the waiter returns False through the timeout return.          *)
C10_NotFoundAbsorbed ==
    /\ [][GetStep /\ gets'[Len(gets')].res = "404" =>
            wpc' = "sleep" /\ wret' = "none" /\ wpath' = "none"]_vars
    /\ [][wpc = "sleep" => now' = now + 5 /\ wpc' = "check"]_vars
    /\ [](wpc = "done" /\ AlwaysNotFound =>
            wret = "False" /\ wpath = "timeout" /\ Elapsed >= timeout)

C10_Witness ==
    /\ wpc = "done"
    /\ wpath = "timeout"
    /\ Len(gets) >= 2
    /\ AlwaysNotFound

(* C11: a get that fails with an ApiException other than 404 ends the       *)
(* waiter at once through the error return, however much of the deadline    *)
(* is left, and no get is made after it.                                    *)
C11_OtherErrorsStopPolling ==
    /\ [][GetStep /\ gets'[Len(gets')].res \in {"409", "500"} =>
            wpc' = "done" /\ wpath' = "error" /\ wret' = "False"]_vars
    /\ [](wpath = "error" => wpc = "done")
    /\ [][wpath = "error" => gets' = gets /\ wpath' = "error"]_vars
    /\ [](\A i \in DOMAIN gets :
            gets[i].res \in {"409", "500"} => i = Len(gets) /\ wpath = "error")

C11_Witness ==
    /\ wpc = "done"
    /\ wpath = "error"
    /\ Len(gets) = 2
    /\ LastGet.res = "500"
    /\ Elapsed + PollInterval < timeout

(* C12 as stated: the value returned when the deadline is exceeded differs  *)
(* from the value returned when polling ended on an API error.              *)
C12_TimeoutDistinctFromError ==
    /\ wpath = "error" => wret # TimeoutReturn
    /\ wpath = "timeout" => wret # ErrorReturn

(* C13 as stated: once a get observed available equal to desired and the    *)
(* pods are listed, the waiter returns True whatever the pod listing does:  *)
(* it is listed once, the waiter is done and no further get is made.        *)
C13_PodListNotInPredicate ==
    lists # << >> =>
        /\ Len(lists) = 1
        /\ wpc = "done"
        /\ wret = "True"
        /\ IsReady(LastGet)

----------------------------------------------------------------------------
\* number of delete and create calls in the log lg
NCalls(lg) == Cardinality({i \in DOMAIN lg : IsCall(lg[i])})

(* C19: the calls are made one at a time and in manifest order: whatever    *)
(* is logged for document i stands before whatever is logged for a later    *)
(* document j, and every create call is preceded by the delete call of the  *)
(* same document, which has returned or raised an ApiException.             *)
C19_CallOrdering ==
    /\ [](\A i, j \in DOMAIN log : i < j => log[i].doc <= log[j].doc)
    /\ [](\A j \in DOMAIN log :
            log[j].ev = "create" =>
                \E i \in 1..(j - 1) :
                    /\ log[i].ev = "delete"
                    /\ log[i].doc = log[j].doc
                    /\ log[i].res \in {"ok"} \cup ApiStatuses
                    /\ \A k \in (i + 1)..(j - 1) : ~IsCall(log[k]))
    /\ [][NCalls(log') <= NCalls(log) + 1]_vars

C19_Witness ==
    /\ pc = "done"
    /\ Len(documents) = 3
    /\ \A d \in 1..3 : At(d, "delete") # {} /\ At(d, "create") # {}
    /\ documents[1] # documents[2]

(* C20: a failed replace is neither rolled back nor retried: when the       *)
(* delete of a document removed an instance and its create failed, the      *)
(* resource is absent when the document is finished, and no document has    *)
(* more than one create call.                                               *)
C20_NoRollbackNoRetry ==
    /\ \A d \in DOMAIN documents : Cardinality(At(d, "create")) <= 1
    /\ \A d \in DOMAIN documents :
        /\ pos = d + 1
        /\ pc \in {"loop", "delete", "done"}
        /\ \E i \in At(d, "delete") : log[i].res = "ok" /\ log[i].uid # 0
        /\ \E j \in At(d, "create") : log[j].res # "ok"
        => cluster[KeyOf(documents[d])] = 0

C20_Witness ==
    /\ pos = 2
    /\ pc = "loop"
    /\ \E i \in At(1, "delete") : log[i].res = "ok" /\ log[i].uid = 1
    /\ \E j \in At(1, "create") : log[j].res = "500"
    /\ cluster[KeyOf(documents[1])] = 0

----------------------------------------------------------------------------
(* get_application_url, get_detailed_service_info, list_deployments,        *)
(* list_services                                                            *)

(* Bounds *)
MaxAddrs == 2

\* service.spec: its type and the node_port of each of its ports
Services ==
    [type : {"NodePort", "ClusterIP", "LoadBalancer"},
     ports : {<< >>, <<30080>>, <<30081, 30080>>}]

Addr(t, a) == [type |-> t, address |-> a]

Addresses ==
    { Addr("ExternalIP", "1.2.3.4"), Addr("ExternalIP", "5.6.7.8"),
      Addr("InternalIP", "10.0.0.1"), Addr("InternalIP", "10.0.0.2"),
      Addr("Hostname", "node-1") }

AddrLists == UNION { [1..n -> Addresses] : n \in 0..MaxAddrs }

\* a node; noaddr: node.status.addresses is None
Node(a) == [noaddr |-> FALSE, addrs |-> a]
BareNode == [noaddr |-> TRUE, addrs |-> << >>]
OtherNode == Node(<<Addr("ExternalIP", "9.9.9.9")>>)

\* nodes.items
NodeLists ==
    {<< >>, <<BareNode>>}
        \cup { <<Node(a)>> : a \in AddrLists }
        \cup { <<Node(a), OtherNode>> : a \in AddrLists }

\* node_ip = None
NoIp == ""

\* for address in ...addresses: ExternalIP: take it and break;
\* InternalIP: take it and go on
RECURSIVE Scan(_, _, _)
Scan(addrs, i, ip) ==
    IF i > Len(addrs) THEN ip
    ELSE IF addrs[i].type = "ExternalIP" THEN addrs[i].address
    ELSE IF addrs[i].type = "InternalIP" THEN Scan(addrs, i + 1, addrs[i].address)
    ELSE Scan(addrs, i + 1, ip)

NodeIp_LastWins(addrs) ==
    LET S == { i \in DOMAIN addrs : addrs[i].type \in {"ExternalIP", "InternalIP"} }
    IN  IF S = {} THEN NoIp
        ELSE addrs[CHOOSE i \in S : \A j \in S : j <= i].address

\* the node_ip the loop over the addresses of the first node ends with
NodeIp(addrs) == Scan(addrs, 1, NoIp)

\* f"http://{node_ip}:{node_port}"
Url(ip, port) == <<"http://", ip, ":", port>>

HasPorts_AnyType(svc) == svc.ports # << >>

\* if service.spec.type == "NodePort" and service.spec.ports
HasNodePort(svc) == svc.type = "NodePort" /\ svc.ports # << >>

\* the part of get_application_url after the two calls: how it ends and
\* the URL it returns
Derive(svc, nds) ==
    IF ~HasNodePort(svc) THEN [out |-> "none", url |-> << >>]
    ELSE IF nds = << >> THEN [out |-> "none", url |-> << >>]
    ELSE IF nds[1].noaddr THEN [out |-> "raised", url |-> << >>]
    ELSE IF NodeIp(nds[1].addrs) = NoIp THEN [out |-> "none", url |-> << >>]
    ELSE [out |-> "value", url |-> Url(NodeIp(nds[1].addrs), svc.ports[1])]

\* except ApiException   (get_application_url, get_detailed_service_info)
ReadHandlerCatches(res) == IsApiException(res)

\* except Exception   (list_deployments, list_services)
ListHandlerCatches(res) == IsApiException(res) \/ res = "exc"

Call(c, r) == [call |-> c, res |-> r]

ReadResults == {"ok", "404", "500", "exc"}

InitRead ==
    /\ IdleCleanVars
    /\ IdleRecVars
    /\ IdleWaitVars
    /\ IdleMainVars
    /\ ext = 0
    /\ fn \in {"get_application_url", "get_detailed_service_info",
               "list_deployments", "list_services"}
    /\ rpc = "start"
    /\ service = [type |-> "none", ports |-> << >>]
    /\ nodes = << >>
    /\ rcalls = << >>
    /\ rout = "none"
    /\ url = << >>

\* a call of get_application_url or get_detailed_service_info raised
ReadFails(res) ==
    /\ rpc' = "done"
    /\ rout' = IF ReadHandlerCatches(res) THEN "none" ELSE "raised"

\* read_namespaced_service in get_application_url and
\* get_detailed_service_info
ReadService ==
    /\ fn \in {"get_application_url", "get_detailed_service_info"}
    /\ rpc = "start"
    /\ \E res \in ReadResults :
        /\ rcalls' = Append(rcalls, Call("read_namespaced_service", res))
        /\ IF res = "ok"
           THEN /\ \E svc \in Services : service' = svc
                /\ rpc' = "nodes"
                /\ UNCHANGED rout
           ELSE /\ ReadFails(res)
                /\ UNCHANGED service
    /\ UNCHANGED <<fn, nodes, url>>
    /\ UNCHANGED <<recVars, waitVars, ext, mainVars, cleanVars>>

\* list_node in get_application_url and get_detailed_service_info
ListNode ==
    /\ rpc = "nodes"
    /\ \E res \in ReadResults :
        /\ rcalls' = Append(rcalls, Call("list_node", res))
        /\ IF res = "ok"
           THEN /\ \E nds \in NodeLists : nodes' = nds
                /\ rpc' = "derive"
                /\ UNCHANGED rout
           ELSE /\ ReadFails(res)
                /\ UNCHANGED nodes
    /\ UNCHANGED <<fn, service, url>>
    /\ UNCHANGED <<recVars, waitVars, ext, mainVars, cleanVars>>

\* get_application_url after the two calls
UrlDerive ==
    /\ fn = "get_application_url"
    /\ rpc = "derive"
    /\ rout' = Derive(service, nodes).out
    /\ url' = Derive(service, nodes).url
    /\ rpc' = "done"
    /\ UNCHANGED <<fn, service, nodes, rcalls>>
    /\ UNCHANGED <<recVars, waitVars, ext, mainVars, cleanVars>>

\* get_detailed_service_info after the two calls: the addresses of every
\* node are printed, then return service
InfoReport ==
    /\ fn = "get_detailed_service_info"
    /\ rpc = "derive"
    /\ rout' = IF \E i \in DOMAIN nodes : nodes[i].noaddr
               THEN "raised" ELSE "value"
    /\ rpc' = "done"
    /\ UNCHANGED <<fn, service, nodes, rcalls, url>>
    /\ UNCHANGED <<recVars, waitVars, ext, mainVars, cleanVars>>

\* list_deployments / list_services: the list call, the printing of the
\* items (which fails on an item without the expected fields), the handler
ListResources ==
    /\ fn \in {"list_deployments", "list_services"}
    /\ rpc = "start"
    /\ \E res \in ReadResults, printing \in {"ok", "exc"} :
        LET c == IF fn = "list_deployments"
                 THEN "list_namespaced_deployment"
                 ELSE "list_namespaced_service"
            failure == IF res # "ok" THEN res ELSE printing
        IN  /\ rcalls' = Append(rcalls, Call(c, res))
            /\ rout' = IF failure = "ok" \/ ListHandlerCatches(failure)
                       THEN "none" ELSE "raised"
    /\ rpc' = "done"
    /\ UNCHANGED <<fn, service, nodes, url>>
    /\ UNCHANGED <<recVars, waitVars, ext, mainVars, cleanVars>>

NextRead ==
    \/ ReadService
    \/ ListNode
    \/ UrlDerive
    \/ InfoReport
    \/ ListResources

SpecRead == InitRead /\ [][NextRead]_vars

----------------------------------------------------------------------------
\* both calls of get_application_url returned and it has finished
UrlDerived ==
    /\ fn = "get_application_url"
    /\ rpc = "done"
    /\ Len(rcalls) = 2
    /\ \A i \in DOMAIN rcalls : rcalls[i].res = "ok"

\* the addresses of type t the first node reports
IpsOf(t) ==
    { nodes[1].addrs[i].address :
        i \in { k \in DOMAIN nodes[1].addrs : nodes[1].addrs[k].type = t } }

(* C15: for a NodePort service with first node port P and a first node      *)
(* that reports a list of addresses, get_application_url returns            *)
(* http://<an ExternalIP of the node>:P when the list holds an ExternalIP   *)
(* at any position, http://<an InternalIP of the node>:P when it holds      *)
(* InternalIPs and no ExternalIP, and None when it holds neither.           *)
C15_UrlDerivation ==
    /\ UrlDerived
    /\ service.type = "NodePort" /\ service.ports # << >>
    /\ nodes # << >> /\ ~nodes[1].noaddr
    => IF IpsOf("ExternalIP") # {}
       THEN /\ rout = "value"
            /\ \E ip \in IpsOf("ExternalIP") :
                url = <<"http://", ip, ":", service.ports[1]>>
       ELSE IF IpsOf("InternalIP") # {}
       THEN /\ rout = "value"
            /\ \E ip \in IpsOf("InternalIP") :
                url = <<"http://", ip, ":", service.ports[1]>>
       ELSE rout = "none" /\ url = << >>

C15_Witness ==
    /\ UrlDerived
    /\ service = [type |-> "NodePort", ports |-> <<30080>>]
    /\ nodes = <<Node(<<Addr("InternalIP", "10.0.0.1"),
                        Addr("ExternalIP", "1.2.3.4")>>)>>
    /\ url = <<"http://", "1.2.3.4", ":", 30080>>

(* C16: when both calls returned and the service is not of type NodePort,   *)
(* or is of type NodePort without ports, get_application_url returns None   *)
(* and does not raise, whatever the nodes are.                              *)
C16_NonNodePortSkip ==
    /\ UrlDerived
    /\ service.type # "NodePort" \/ service.ports = << >>
    => rout = "none" /\ url = << >>

C16_Witness ==
    /\ UrlDerived
    /\ service = [type |-> "ClusterIP", ports |-> <<30080>>]
    /\ nodes = <<Node(<<Addr("ExternalIP", "1.2.3.4")>>)>>
    /\ rout = "none"

(* C17 as stated: list_deployments, list_services and                       *)
(* get_detailed_service_info make only get and list calls and never raise,  *)
(* whatever fails in them.                                                  *)
C17_StatusNeverRaises ==
    fn \in {"list_deployments", "list_services", "get_detailed_service_info"}
    => /\ rout # "raised"
       /\ \A i \in DOMAIN rcalls :
            rcalls[i].call \in {"read_namespaced_service", "list_node",
                                "list_namespaced_deployment",
                                "list_namespaced_service"}

----------------------------------------------------------------------------
(* main                                                                     *)

\* the manager methods main calls, in the order of its call sites
MainSteps ==
    <<"print_configuration", "delete_all_resources",
      "list_deployments", "list_services",
      "create_deployment_from_yaml", "wait_for_pods_ready",
      "get_detailed_service_info", "get_application_url",
      "list_deployments_after", "list_services_after">>

\* the cluster API calls a method can issue
ApiCalls(m) ==
    CASE m = "print_configuration" -> {}
      [] m = "delete_all_resources" ->
            {"list_namespaced_deployment", "delete_namespaced_deployment",
             "list_namespaced_service", "delete_namespaced_service"}
      [] m \in {"list_deployments", "list_deployments_after"} ->
            {"list_namespaced_deployment"}
      [] m \in {"list_services", "list_services_after"} ->
            {"list_namespaced_service"}
      [] m = "create_deployment_from_yaml" ->
            {"delete_namespaced_deployment", "create_namespaced_deployment",
             "delete_namespaced_service", "create_namespaced_service"}
      [] m = "wait_for_pods_ready" ->
            {"read_namespaced_deployment", "list_namespaced_pod"}
      [] m \in {"get_detailed_service_info", "get_application_url"} ->
            {"read_namespaced_service", "list_node"}

\* the call a method issues before any condition is looked at
FirstCall(m) ==
    CASE m = "delete_all_resources" -> {"list_namespaced_deployment"}
      [] m \in {"list_deployments", "list_deployments_after"} ->
            {"list_namespaced_deployment"}
      [] m \in {"list_services", "list_services_after"} ->
            {"list_namespaced_service"}
      [] m = "wait_for_pods_ready" -> {"read_namespaced_deployment"}
      [] m \in {"get_detailed_service_info", "get_application_url"} ->
            {"read_namespaced_service"}
      [] OTHER -> {}

\* the sets of calls one run of a method can have issued
Issues(m) == { cs \in SUBSET ApiCalls(m) : FirstCall(m) \subseteq cs }

\* the methods whose handler lets an exception out (except ApiException)
MayRaise(m) == m \in {"get_detailed_service_info", "get_application_url"}

\* the call site after m, "done" after the last one
After(m) ==
    LET i == CHOOSE k \in DOMAIN MainSteps : MainSteps[k] = m
    IN  IF i = Len(MainSteps) THEN "done" ELSE MainSteps[i + 1]

CtorRaises_Swallows(outcome) == FALSE

\* __init__: except Exception ... raise
CtorRaises(outcome) == outcome = "fail"

InitMain ==
    /\ IdleCleanVars
    /\ IdleRecVars
    /\ IdleWaitVars
    /\ IdleReadVars
    /\ ext = 0
    /\ mpc = "init"
    /\ minit = "none"
    /\ mcalls = {}

\* manager = KubernetesManager(); an exception of the constructor reaches
\* main's except Exception, after which main returns
Construct ==
    /\ mpc = "init"
    /\ \E outcome \in {"ok", "fail"} :
        /\ minit' = IF outcome = "fail" THEN "failed" ELSE "ok"
        /\ mpc' = IF CtorRaises(outcome) THEN "done" ELSE MainSteps[1]
    /\ UNCHANGED mcalls
    /\ UNCHANGED <<recVars, waitVars, ext, readVars, cleanVars>>

\* one call site of main: the method issues some of its calls and returns,
\* or raises into main's except Exception
Invoke(m) ==
    /\ mpc = m
    /\ \E cs \in Issues(m), exc \in BOOLEAN :
        /\ mcalls' = mcalls \cup cs
        /\ mpc' = IF exc /\ MayRaise(m) THEN "done" ELSE After(m)
    /\ UNCHANGED minit
    /\ UNCHANGED <<recVars, waitVars, ext, readVars, cleanVars>>

MainPrintConfiguration == Invoke("print_configuration")
MainDeleteAllResources == Invoke("delete_all_resources")
MainListDeployments == Invoke("list_deployments")
MainListServices == Invoke("list_services")
MainCreateFromYaml == Invoke("create_deployment_from_yaml")
MainWaitForPodsReady == Invoke("wait_for_pods_ready")
MainServiceInfo == Invoke("get_detailed_service_info")
MainApplicationUrl == Invoke("get_application_url")
MainListDeploymentsAfter == Invoke("list_deployments_after")
MainListServicesAfter == Invoke("list_services_after")

NextMain ==
    \/ Construct
    \/ MainPrintConfiguration
    \/ MainDeleteAllResources
    \/ MainListDeployments
    \/ MainListServices
    \/ MainCreateFromYaml
    \/ MainWaitForPodsReady
    \/ MainServiceInfo
    \/ MainApplicationUrl
    \/ MainListDeploymentsAfter
    \/ MainListServicesAfter

SpecMain == InitMain /\ [][NextMain]_vars

(* C18: when loading the client configuration fails, the constructor        *)
(* raises, main is over at once, and the run issues no cluster API call     *)
(* then or later.                                                           *)
C18_FatalInitialization ==
    minit = "failed" => mpc = "done" /\ mcalls = {}

C18_Witness == minit = "failed" /\ mpc = "done" /\ mcalls = {}

----------------------------------------------------------------------------
(* Another actor on the same cluster.  The program holds no lock: between   *)
(* any two of its calls somebody else may create or delete a resource       *)
(* under a key the program works on.                                        *)

(* Bounds *)
MaxExt == 1
MaxExtDocs == 2

\* the documents that leave the namespace to the default
ExtDocSet == { doc \in DocSet : doc.ns = NoNs }

ExtManifests == UNION { [1..n -> ExtDocSet] : n \in 1..MaxExtDocs }

\* the deployment wait_for_pods_ready is asked to watch
WaitKey == [kind |-> "Deployment", ns |-> NAMESPACE, name |-> "web"]

\* create_deployment_from_yaml or wait_for_pods_ready is under way
Running == pc \notin {"idle", "done"} \/ wpc \notin {"idle", "done"}

\* create_deployment_from_yaml has read the file and is about to look at
\* the first document, on a cluster that holds none of the resources yet;
\* or wait_for_pods_ready has been called with the longest timeout, the
\* deployment being there or not
InitExt ==
    /\ IdleCleanVars
    /\ ext = 0
    /\ IdleReadVars
    /\ IdleMainVars
    /\ nextUid = 2
    /\ log = << >>
    /\ raised = FALSE
    /\ \/ /\ pc = "loop"
          /\ documents \in ExtManifests
          /\ pos = 1
          /\ cluster = [k \in Keys |-> 0]
          /\ IdleWaitVars
       \/ /\ pc = "idle"
          /\ documents = << >>
          /\ pos = 0
          /\ wpc = "start"
          /\ timeout = MaxTimeout
          /\ \E u \in {0, 1} :
                cluster = [k \in Keys |-> IF k.ns = NAMESPACE THEN u ELSE 0]
          /\ now = 0
          /\ start_time = 0
          /\ gets = << >>
          /\ lists = << >>
          /\ wret = "none"
          /\ wpath = "none"

\* the keys the program works on: the deployment it watches, or the
\* resources its documents name
Shared ==
    IF wpc # "idle" THEN {WaitKey}
    ELSE { KeyOf(documents[d]) :
             d \in { k \in DOMAIN documents :
                       /\ ~documents[k].empty
                       /\ documents[k].kind \in Kinds
                       /\ documents[k].name # NoName } }

\* the other actor creates a resource
ExternalCreate ==
    /\ Running
    /\ ext < MaxExt
    /\ \E key \in Shared :
        /\ cluster[key] = 0
        /\ cluster' = [cluster EXCEPT ![key] = nextUid]
    /\ nextUid' = nextUid + 1
    /\ ext' = ext + 1
    /\ UNCHANGED <<pc, documents, pos, log, raised>>
    /\ UNCHANGED <<waitVars, readVars, mainVars, cleanVars>>

\* the other actor deletes a resource
ExternalDelete ==
    /\ Running
    /\ ext < MaxExt
    /\ \E key \in Shared :
        /\ cluster[key] # 0
        /\ cluster' = [cluster EXCEPT ![key] = 0]
    /\ ext' = ext + 1
    /\ UNCHANGED <<pc, documents, pos, nextUid, log, raised>>
    /\ UNCHANGED <<waitVars, readVars, mainVars, cleanVars>>

\* read_namespaced_deployment against the shared cluster: NotFound exactly
\* when the deployment is absent at the time of the call, unless the call
\* itself fails; then the comparison and the handlers
GetCallLive ==
    /\ wpc = "get"
    /\ \E g \in Observations \cup GetErrors, lat \in 0..MaxLatency :
        /\ g.res = "ok" => cluster[WaitKey] # 0
        /\ g.res = "404" => cluster[WaitKey] = 0
        /\ now' = now + lat
        /\ gets' = Append(gets, g)
        /\ IF g.res = "ok"
           THEN /\ wpc' = IF IsReady(g) THEN "list" ELSE "sleep"
                /\ UNCHANGED <<wret, wpath>>
           ELSE PollFails(g.res)
    /\ UNCHANGED <<timeout, start_time, lists>>
    /\ UNCHANGED <<recVars, ext, readVars, mainVars, cleanVars>>

\* a step of the program
ProgramStep ==
    \/ LoopEnd
    \/ SkipEmpty
    \/ MissingKind
    \/ Unsupported
    \/ MissingName
    \/ BeginReplace
    \/ DeleteCall
    \/ Settle
    \/ CreateCall
    \/ WaitStart
    \/ DeadlineNotReached
    \/ DeadlineReached
    \/ GetCallLive
    \/ ListCall
    \/ PollSleep

NextExt ==
    \/ LoopEnd
    \/ SkipEmpty
    \/ MissingKind
    \/ Unsupported
    \/ MissingName
    \/ BeginReplace
    \/ DeleteCall
    \/ Settle
    \/ CreateCall
    \/ WaitStart
    \/ DeadlineNotReached
    \/ DeadlineReached
    \/ GetCallLive
    \/ ListCall
    \/ PollSleep
    \/ ExternalCreate
    \/ ExternalDelete

SpecExt == InitExt /\ [][NextExt]_vars

\* the program is sequential and keeps running whatever the other actor
\* does; nothing is assumed about the other actor
FairExt == SpecExt /\ WF_vars(ProgramStep)

\* this step made a create call that was answered with Conflict
ConflictStep ==
    /\ Len(log') > Len(log)
    /\ log'[Len(log) + 1].ev = "create"
    /\ log'[Len(log) + 1].res = "409"

----------------------------------------------------------------------------
(* delete_all_resources                                                     *)

(* Bounds *)
MaxCreated == 2
MaxForeign == 1

DEPLOYMENT_NAME == "python-flask-app"
SERVICE_NAME == "python-flask-service"

\* the names a manifest can give its resource
Names == {DEPLOYMENT_NAME, "python-deployment", SERVICE_NAME, "web"}

\* what create_deployment_from_yaml can create: a Deployment or a Service
\* under the name and the namespace its document carries
CleanKeys == [kind : Kinds, ns : {NAMESPACE, "other"}, name : Names]

Key(k, n, s) == [kind |-> k, ns |-> s, name |-> n]

\* if deployment.metadata.name in [DEPLOYMENT_NAME, "python-deployment"]
\* if service.metadata.name in [SERVICE_NAME]
CleanupNames(kind) ==
    IF kind = "Deployment" THEN {DEPLOYMENT_NAME, "python-deployment"}
    ELSE {SERVICE_NAME}

\* list_namespaced_*(namespace=NAMESPACE): the names of the resources of
\* that kind the namespace holds
Listing(c, kind) ==
    { k.name : k \in { q \in CleanKeys :
                         q.kind = kind /\ q.ns = NAMESPACE /\ c[q] # 0 } }

\* the orders in which a listing can come back
Orderings(S) ==
    { f \in [1..Cardinality(S) -> S] :
        \A i, j \in 1..Cardinality(S) : f[i] = f[j] => i = j }

\* except Exception   (end of delete_all_resources)
CleanupCatches(res) == IsApiException(res) \/ res = "exc"

CleanCall(c, k, n, r) == [call |-> c, kind |-> k, name |-> n, res |-> r]

\* delete_all_resources is called on a cluster that holds resources this
\* program created earlier and resources of others
InitClean ==
    /\ IdleWaitVars
    /\ IdleReadVars
    /\ IdleMainVars
    /\ ext = 0
    /\ pc = "idle"
    /\ documents = << >>
    /\ pos = 0
    /\ nextUid = 1
    /\ log = << >>
    /\ raised = FALSE
    /\ created \in { S \in SUBSET CleanKeys : Cardinality(S) <= MaxCreated }
    /\ \E foreign \in { S \in SUBSET CleanKeys : Cardinality(S) <= MaxForeign } :
        cluster = [k \in CleanKeys |->
                     IF k \in created \cup foreign THEN 1 ELSE 0]
    /\ cpc = "start"
    /\ citems = << >>
    /\ ccalls = << >>

\* a list call: the listing is kept for the loop, or the handler ends the
\* function
ListFor(kind, res, loop) ==
    /\ ccalls' = Append(ccalls, CleanCall("list", kind, "", res))
    /\ IF res = "ok"
       THEN /\ \E items \in Orderings(Listing(cluster, kind)) : citems' = items
            /\ cpc' = loop
       ELSE /\ citems' = << >>
            /\ cpc' = IF CleanupCatches(res) THEN "done" ELSE "raised"
    /\ UNCHANGED <<cluster, created>>

\* one turn of a loop: the item is deleted when its name is one of the
\* names the function knows, and left alone otherwise
ItemFor(kind, res) ==
    LET name == Head(citems)
        key == Key(kind, name, NAMESPACE)
    IN  IF name \notin CleanupNames(kind)
        THEN /\ citems' = Tail(citems)
             /\ UNCHANGED <<cpc, ccalls, cluster, created>>
        ELSE /\ ccalls' = Append(ccalls, CleanCall("delete", kind, name, res))
             /\ IF res = "ok"
                THEN /\ cluster' = [cluster EXCEPT ![key] = 0]
                     /\ citems' = Tail(citems)
                     /\ UNCHANGED cpc
                ELSE /\ citems' = << >>
                     /\ cpc' = IF CleanupCatches(res) THEN "done" ELSE "raised"
                     /\ UNCHANGED cluster
             /\ UNCHANGED created

\* deployments = apps_api.list_namespaced_deployment(namespace=NAMESPACE)
CleanListDeployments ==
    /\ cpc = "start"
    /\ \E res \in {"ok", "500", "exc"} : ListFor("Deployment", res, "deployments")
    /\ UNCHANGED <<pc, documents, pos, nextUid, log, raised>>
    /\ UNCHANGED <<waitVars, ext, readVars, mainVars>>

\* for deployment in deployments.items
CleanDeployment ==
    /\ cpc = "deployments"
    /\ citems # << >>
    /\ \E res \in {"ok", "500", "exc"} : ItemFor("Deployment", res)
    /\ UNCHANGED <<pc, documents, pos, nextUid, log, raised>>
    /\ UNCHANGED <<waitVars, ext, readVars, mainVars>>

\* services = core_api.list_namespaced_service(namespace=NAMESPACE)
CleanListServices ==
    /\ cpc = "deployments"
    /\ citems = << >>
    /\ \E res \in {"ok", "500", "exc"} : ListFor("Service", res, "services")
    /\ UNCHANGED <<pc, documents, pos, nextUid, log, raised>>
    /\ UNCHANGED <<waitVars, ext, readVars, mainVars>>

\* for service in services.items
CleanService ==
    /\ cpc = "services"
    /\ citems # << >>
    /\ \E res \in {"ok", "500", "exc"} : ItemFor("Service", res)
    /\ UNCHANGED <<pc, documents, pos, nextUid, log, raised>>
    /\ UNCHANGED <<waitVars, ext, readVars, mainVars>>

\* the second loop is over: the function returns
CleanEnd ==
    /\ cpc = "services"
    /\ citems = << >>
    /\ cpc' = "done"
    /\ UNCHANGED <<citems, ccalls, created>>
    /\ UNCHANGED recVars
    /\ UNCHANGED <<waitVars, ext, readVars, mainVars>>

NextClean ==
    \/ CleanListDeployments
    \/ CleanDeployment
    \/ CleanListServices
    \/ CleanService
    \/ CleanEnd

SpecClean == InitClean /\ [][NextClean]_vars

\* every list and delete call the function made returned normally
AllCallsOk == \A i \in DOMAIN ccalls : ccalls[i].res = "ok"

(* C21 as stated: when delete_all_resources has returned and each of its    *)
(* list and delete calls succeeded, none of the Deployments and Services    *)
(* that create_deployment_from_yaml created, whatever their name and        *)
(* namespace, is left in the cluster.                                       *)
C21_CleanupComplete ==
    cpc = "done" /\ AllCallsOk => \A k \in created : cluster[k] = 0

====
